---- MODULE Spec2Model ----
(***************************************************************************)
(* A model of src/data_processing.py: the fighter-name normalizer, the     *)
(* per-record outcome classification, the rollups built on them            *)
(* (fighter_summary, fighter_wins_by_category_and_method,                  *)
(* win_percentages_by_method, win_percentages_by_weight_and_method) and    *)
(* the descriptive statistics (summary_fighter_stats,                      *)
(* top_fighters_by_metric).                                                *)
(*                                                                         *)
(* Text cells whose characters the code inspects (names, result codes) are *)
(* sequences of one-character strings.  Categorical cells the code only    *)
(* compares (decision_group, wtClass) are strings.  Floating-point cells   *)
(* are exact fractions <<numerator, denominator>>.                         *)
(***************************************************************************)
EXTENDS Integers, Sequences, FiniteSets, TLC

\* ------------------------------------------------------------ bounds

\* Longest input string of the name normalizer.
MaxLen == 4
\* Most rows of a fight-record table given to the per-fighter rollups.
MaxFights == 2
\* Most rows of a fighter-statistics table.
MaxStats == 2
\* Most rows of a fight-record table given to the method distribution.
MaxRows == 3
\* Most rows of a statistics table given to the descriptive statistics.
MaxStatRows == 3
\* Largest top_n asked of the ranking.
MaxTop == 2

\* ------------------------------------------------------------ cell values

\* A missing value (float NaN) in a column of character strings.
NaN == <<"NaN">>
\* Python's None.
None == <<"None">>
\* A missing value in a categorical column.
NaNCat == "NaN"
\* A missing value in a numeric column.
NaNNum == << >>
\* The float n.
Num(n) == <<n, 1>>

\* The characters str.strip() removes.
Whitespace == {" ", "\t"}

LowerCase ==
    <<"a", "b", "c", "d", "e", "f", "g", "h", "i", "j", "k", "l", "m",
      "n", "o", "p", "q", "r", "s", "t", "u", "v", "w", "x", "y", "z">>

UpperCase ==
    <<"A", "B", "C", "D", "E", "F", "G", "H", "I", "J", "K", "L", "M",
      "N", "O", "P", "Q", "R", "S", "T", "U", "V", "W", "X", "Y", "Z">>

\* str.upper(), character by character.
Upper(s) ==
    [k \in 1..Len(s) |->
        IF \E a \in 1..Len(LowerCase) : LowerCase[a] = s[k]
        THEN UpperCase[CHOOSE a \in 1..Len(LowerCase) : LowerCase[a] = s[k]]
        ELSE s[k]]

RECURSIVE LStrip(_)
LStrip(s) ==
    IF s = << >> \/ s[1] \notin Whitespace THEN s ELSE LStrip(Tail(s))

RECURSIVE RStrip(_)
RStrip(s) ==
    IF s = << >> \/ s[Len(s)] \notin Whitespace
    THEN s
    ELSE RStrip(SubSeq(s, 1, Len(s) - 1))

\* A strip that removes at most one whitespace character from each end.
StripOnce(s) ==
    LET l == IF s # << >> /\ s[1] \in Whitespace THEN Tail(s) ELSE s
    IN  IF l # << >> /\ l[Len(l)] \in Whitespace
        THEN SubSeq(l, 1, Len(l) - 1)
        ELSE l

\* str.strip(): leading and trailing whitespace removed.
Strip(s) == RStrip(LStrip(s))

\* ',' in s
HasComma(s) == \E k \in 1..Len(s) : s[k] = ","

\* s.split(',', 1)[0]: the text before the first comma.
RECURSIVE SplitHead(_)
SplitHead(s) ==
    IF s = << >> \/ s[1] = "," THEN << >> ELSE <<s[1]>> \o SplitHead(Tail(s))

\* s.split(',', 1)[1]: the text after the first comma (s holds a comma).
RECURSIVE SplitRest(_)
SplitRest(s) ==
    IF s[1] = "," THEN Tail(s) ELSE SplitRest(Tail(s))

\* name is None or (isinstance(name, float) and pd.isna(name))
IsNullName(name) == name = None \/ name = NaN

\* A normalizer that splits at the last comma instead of the first.
NormalizeAtLastComma(name) ==
    IF IsNullName(name) THEN None
    ELSE LET name_str == Strip(name)
             k == CHOOSE c \in 1..Len(name_str) :
                      /\ name_str[c] = ","
                      /\ \A d \in (c + 1)..Len(name_str) : name_str[d] # ","
         IN  IF HasComma(name_str)
             THEN Strip(SubSeq(name_str, k + 1, Len(name_str)))
                      \o <<" ">> \o Strip(SubSeq(name_str, 1, k - 1))
             ELSE name_str

\* A normalizer that strips but never swaps "Last, First".
NormalizeNoSwap(name) ==
    IF IsNullName(name) THEN None ELSE Strip(name)

\* _normalize_name: "Last, First" -> "First Last"; None/NaN -> None.
_normalize_name(name) ==
    IF IsNullName(name) THEN None
    ELSE LET name_str == Strip(name)
         IN  IF HasComma(name_str)
             THEN LET last  == Strip(SplitHead(name_str))
                      first == Strip(SplitRest(name_str))
                  IN  first \o <<" ">> \o last
             ELSE name_str

\* ------------------------------------------------------------ helpers

RECURSIVE SeqsUpTo(_, _)
\* Every sequence over S of length at most n.
SeqsUpTo(S, n) ==
    IF n = 0 THEN {<< >>}
    ELSE LET shorter == SeqsUpTo(S, n - 1)
         IN  shorter \cup {Append(q, x) : q \in shorter, x \in S}

RECURSIVE GCD(_, _)
GCD(a, b) == IF b = 0 THEN a ELSE GCD(b, a % b)

\* The float n / d * 100, as a fraction in lowest terms (d > 0).
Pct(n, d) ==
    LET g == GCD(100 * n, d)
    IN  <<(100 * n) \div g, d \div g>>

\* d[k] += 1 on a defaultdict(int).
Incr(d, k) ==
    IF k \in DOMAIN d THEN [d EXCEPT ![k] = @ + 1] ELSE d @@ (k :> 1)

\* d.get(k, 0)
Get(d, k) == IF k \in DOMAIN d THEN d[k] ELSE 0

\* defaultdict(int)
EmptyDict == [k \in {} |-> 0]

\* ------------------------------------------------------------ inputs

DoeJohn == <<"D", ",", " ", "J">>
JohnDoe == <<"J", " ", "D">>
AnnLee  == <<"A", " ", "L">>
Blank   == <<" ">>
Zed     == <<"Z">>

\* p1_name / p2_name cells: both spellings of one fighter, another
\* fighter, a missing name and a whitespace-only name.
FightNames == {DoeJohn, JohnDoe, AnnLee, NaN, Blank}

\* p1_result / p2_result cells.
ResultCells == {<<"W">>, <<" ", "w">>, <<"L">>, NaN}

\* (decision_group, wtClass, round) of a row: every method group of the
\* data set, an unlisted one, a missing one; two weight classes and a
\* missing one; rounds 0..3 and a missing one.
Details ==
    { [decision_group |-> "KO/TKO",       wtClass |-> "Lightweight", round |-> Num(1)],
      [decision_group |-> "KO/TKO",       wtClass |-> "Lightweight", round |-> Num(2)],
      [decision_group |-> "Submission",   wtClass |-> "Heavyweight", round |-> Num(1)],
      [decision_group |-> "Decision",     wtClass |-> "Lightweight", round |-> Num(3)],
      [decision_group |-> "DQ",           wtClass |-> "Heavyweight", round |-> Num(2)],
      [decision_group |-> "Unkown/Other", wtClass |-> "Lightweight", round |-> Num(1)],
      [decision_group |-> "Technical",    wtClass |-> "Heavyweight", round |-> Num(0)],
      [decision_group |-> NaNCat,         wtClass |-> "Lightweight", round |-> Num(2)],
      [decision_group |-> "Decision",     wtClass |-> NaNCat,        round |-> NaNNum] }

FightRow(n1, n2, r1, r2, d) ==
    [p1_name |-> n1, p2_name |-> n2, p1_result |-> r1, p2_result |-> r2,
     decision_group |-> d.decision_group, wtClass |-> d.wtClass,
     round |-> d.round]

KoLightweight1 ==
    [decision_group |-> "KO/TKO", wtClass |-> "Lightweight", round |-> Num(1)]
KoLightweight2 ==
    [decision_group |-> "KO/TKO", wtClass |-> "Lightweight", round |-> Num(2)]
DecLightweight3 ==
    [decision_group |-> "Decision", wtClass |-> "Lightweight", round |-> Num(3)]

\* Every row over the cell values above.
FightRows ==
    { FightRow(n1, n2, r1, r2, d) :
        n1 \in FightNames, n2 \in FightNames,
        r1 \in ResultCells, r2 \in ResultCells, d \in Details }

\* Rows of every pair of names, one side winning.
JoinRows ==
    { FightRow(n1, n2, r[1], r[2], KoLightweight2) :
        n1 \in FightNames, n2 \in FightNames,
        r \in {<< <<"W">>, <<"L">> >>, << <<"L">>, <<"W">> >>} }

\* Rows of every pair of names and of results, alike in all else.
SpellingRows ==
    { FightRow(n1, n2, r1, r2, KoLightweight1) :
        n1 \in FightNames, n2 \in FightNames,
        r1 \in ResultCells, r2 \in ResultCells }

\* Rows that come before the last row of a table.
PriorRows ==
    { FightRow(DoeJohn, AnnLee, <<"W">>, <<"L">>, KoLightweight1),
      FightRow(AnnLee, JohnDoe, <<"L">>, <<" ", "w">>, DecLightweight3) }

\* The empty table, and every table of at most MaxFights rows whose last
\* row is in Last and whose earlier rows are in PriorRows.
FightTables(Last) ==
    {<< >>} \cup
    { Append(prior, r) : prior \in SeqsUpTo(PriorRows, MaxFights - 1), r \in Last }

StatRow(name, td_acc, str_acc, slpm, td_avg, sub_avg) ==
    [fighter_name |-> name, TD_Acc_Pct |-> td_acc, Str_Acc_Pct |-> str_acc,
     SLpM |-> slpm, TD_Avg |-> td_avg, Sub_Avg |-> sub_avg]

JohnDoeStats == StatRow(JohnDoe, Num(30), Num(50), Num(3), Num(1), Num(0))

\* Rows of the statistics table: two records of one name and a fighter
\* with no fight.
StatRows ==
    { JohnDoeStats,
      StatRow(JohnDoe, Num(40), Num(60), Num(4), Num(2), Num(1)),
      StatRow(Zed, NaNNum, Num(45), Num(2), Num(0), Num(0)) }

StatTables == SeqsUpTo(StatRows, MaxStats)

\* ------------------------------------------------------------ state

VARIABLES
    df_wt,      \* the fight-record table, a sequence of rows
    df_stats,   \* the fighter-statistics table, a sequence of rows
    pc,         \* where the program is
    i,          \* position of iterrows() in df_wt
    tallies,    \* fighter_summary's eight defaultdicts, by name
    merged,     \* fighter_summary's result, a bag of rows
    records,    \* fighter_wins_by_category_and_method's list of wins
    grouped,    \* fighter_wins_by_category_and_method's result
    counts,     \* win_percentages_by_method's result
    n_arg,      \* the argument of _normalize_name
    n_ret,      \* what successive applications of _normalize_name returned
    by_weight,  \* win_percentages_by_weight_and_method's result
    sf_stats,   \* summary_fighter_stats's result, the dict `stats`
    metric,     \* the argument `metric` of top_fighters_by_metric
    top_n,      \* the argument `top_n` of top_fighters_by_metric
    subset      \* top_fighters_by_metric's result

vars ==
    <<df_wt, df_stats, pc, i, tallies, merged, records, grouped, counts,
      n_arg, n_ret, by_weight, sf_stats, metric, top_n, subset>>

\* No call of the other rollups has been made.
NoOtherResults ==
    /\ by_weight = << >>
    /\ sf_stats = << >>
    /\ metric = ""
    /\ top_n = 0
    /\ subset = << >>

\* What the rollups over one table leave alone.
other_results == <<by_weight, sf_stats, metric, top_n, subset>>

\* Lines 300-307: the eight tallies, all empty.
NewTallies ==
    [total_fights |-> EmptyDict, total_wins |-> EmptyDict,
     wins_ko |-> EmptyDict, wins_sub |-> EmptyDict, wins_dec |-> EmptyDict,
     wins_dq |-> EmptyDict, wins_other |-> EmptyDict,
     wins_round1 |-> EmptyDict]

\* ------------------------------------------------------------ fighter_summary

\* pd.notna(x)
NotNa(x) == x # NaN /\ x # None

\* A result code compared as written: stripped, letter case kept.
ResultCodeNoUpper(cell) == IF NotNa(cell) THEN Strip(cell) ELSE << >>

\* str(cell).strip().upper() if pd.notna(cell) else ''
ResultCode(cell) == IF NotNa(cell) THEN Upper(Strip(cell)) ELSE << >>

\* A count that gives a row's fight to side 1 only.
CountFightsSide1(tf, fighter1, fighter2) ==
    IF fighter1 # None THEN Incr(tf, fighter1) ELSE tf

\* Lines 317-320: one fight more for each side that has a name.
CountFights(tf, fighter1, fighter2) ==
    LET tf1 == IF fighter1 # None THEN Incr(tf, fighter1) ELSE tf
    IN  IF fighter2 # None THEN Incr(tf1, fighter2) ELSE tf1

\* A bucket choice that files submissions under decisions.
MethodBucketSubAsDec(method) ==
    IF method = "KO/TKO" THEN "wins_ko"
    ELSE IF method = "Submission" THEN "wins_dec"
    ELSE IF method = "Decision" THEN "wins_dec"
    ELSE IF method = "DQ" THEN "wins_dq"
    ELSE "wins_other"

\* A bucket choice that has no branch for disqualifications.
MethodBucketNoDq(method) ==
    IF method = "KO/TKO" THEN "wins_ko"
    ELSE IF method = "Submission" THEN "wins_sub"
    ELSE IF method = "Decision" THEN "wins_dec"
    ELSE "wins_other"

\* Lines 334-343 and 349-358: the tally a win by `method` goes to.
MethodBucket(method) ==
    IF method = "KO/TKO" THEN "wins_ko"
    ELSE IF method = "Submission" THEN "wins_sub"
    ELSE IF method = "Decision" THEN "wins_dec"
    ELSE IF method = "DQ" THEN "wins_dq"
    ELSE "wins_other"

\* Lines 331-343 and 346-358: a win of `fighter` by `method` in `round`.
CreditWin(t, fighter, method, round) ==
    LET won == [t EXCEPT !.total_wins = Incr(@, fighter)]
        r1  == IF round = Num(1)
               THEN [won EXCEPT !.wins_round1 = Incr(@, fighter)]
               ELSE won
    IN  [r1 EXCEPT ![MethodBucket(method)] = Incr(@, fighter)]

\* Two separate ifs: each side whose result reads "W" is credited.
CreditWinnerBoth(t, row, fighter1, fighter2) ==
    LET method == row.decision_group
        t1 == IF ResultCode(row.p1_result) = <<"W">> /\ fighter1 # None
              THEN CreditWin(t, fighter1, method, row.round)
              ELSE t
    IN  IF ResultCode(row.p2_result) = <<"W">> /\ fighter2 # None
        THEN CreditWin(t1, fighter2, method, row.round)
        ELSE t1

\* Lines 321-358: the if / elif that credits the row's win.
CreditWinner(t, row, fighter1, fighter2) ==
    LET method == row.decision_group
        p1_res == ResultCode(row.p1_result)
        p2_res == ResultCode(row.p2_result)
    IN  IF p1_res = <<"W">> /\ fighter1 # None
        THEN CreditWin(t, fighter1, method, row.round)
        ELSE IF p2_res = <<"W">> /\ fighter2 # None
        THEN CreditWin(t, fighter2, method, row.round)
        ELSE t

\* Lines 310-358: the body of the loop, on one row.
SummaryStep(t, row) ==
    LET fighter1 == _normalize_name(row.p1_name)
        fighter2 == _normalize_name(row.p2_name)
        counted  == [t EXCEPT !.total_fights = CountFights(@, fighter1, fighter2)]
    IN  CreditWinner(counted, row, fighter1, fighter2)

\* Line 361: the fighters of the result.
Fighters(t, stats) ==
    DOMAIN t.total_fights \cup {stats[j].fighter_name : j \in 1..Len(stats)}

\* A percentage that is 0 for a fighter without a win.
MethodPctZero(n, tw) == IF tw = 0 THEN Num(0) ELSE Pct(n, tw)

\* Line 383: col / total_wins.replace(0, nan) * 100
MethodPct(n, tw) == IF tw = 0 THEN NaNNum ELSE Pct(n, tw)

\* Lines 363-383: the row of `fighter` before the merge.
SummaryRow(t, fighter) ==
    LET tf == Get(t.total_fights, fighter)
        tw == Get(t.total_wins, fighter)
    IN  [fighter_name    |-> fighter,
         total_fights    |-> tf,
         total_wins      |-> tw,
         win_percent     |-> IF tf > 0 THEN Pct(tw, tf) ELSE Num(0),
         wins_ko         |-> Get(t.wins_ko, fighter),
         wins_sub        |-> Get(t.wins_sub, fighter),
         wins_dec        |-> Get(t.wins_dec, fighter),
         wins_dq         |-> Get(t.wins_dq, fighter),
         wins_other      |-> Get(t.wins_other, fighter),
         wins_round1     |-> Get(t.wins_round1, fighter),
         wins_ko_pct     |-> MethodPct(Get(t.wins_ko, fighter), tw),
         wins_sub_pct    |-> MethodPct(Get(t.wins_sub, fighter), tw),
         wins_dec_pct    |-> MethodPct(Get(t.wins_dec, fighter), tw),
         wins_dq_pct     |-> MethodPct(Get(t.wins_dq, fighter), tw),
         wins_other_pct  |-> MethodPct(Get(t.wins_other, fighter), tw),
         wins_round1_pct |-> MethodPct(Get(t.wins_round1, fighter), tw)]

\* The five columns line 385 takes from the statistics table.
NoMetrics ==
    [TD_Acc_Pct |-> NaNNum, Str_Acc_Pct |-> NaNNum, SLpM |-> NaNNum,
     TD_Avg |-> NaNNum, Sub_Avg |-> NaNNum]

Metrics(s) ==
    [TD_Acc_Pct |-> s.TD_Acc_Pct, Str_Acc_Pct |-> s.Str_Acc_Pct,
     SLpM |-> s.SLpM, TD_Avg |-> s.TD_Avg, Sub_Avg |-> s.Sub_Avg]

\* Line 386, merge(how='left', on='fighter_name'): a row for each fighter
\* and each statistics record of that name (j > 0), or one row without
\* statistics (j = 0) for a fighter with no such record.
MergePairs(fighters, stats) ==
    { <<f, j>> \in fighters \X (0..Len(stats)) :
        \/ j > 0 /\ stats[j].fighter_name = f
        \/ j = 0 /\ \A k \in 1..Len(stats) : stats[k].fighter_name # f }

\* The merged row of fighter f and statistics record j.
MergedRow(t, stats, f, j) ==
    [summary |-> SummaryRow(t, f),
     stats   |-> IF j = 0 THEN NoMetrics ELSE Metrics(stats[j])]

\* Lines 360-387: the result, a bag of rows (the rows follow the iteration
\* order of a set, which is not fixed).
Merged(t, stats) ==
    LET pairs == MergePairs(Fighters(t, stats), stats)
        rows  == {MergedRow(t, stats, p[1], p[2]) : p \in pairs}
    IN  [r \in rows |->
            Cardinality({p \in pairs : MergedRow(t, stats, p[1], p[2]) = r})]

\* A call that goes on with the tallies the call before left behind.
FighterSummaryCallKeepsTallies ==
    /\ pc = "start"
    /\ pc' = "fs_loop"
    /\ i' = 1
    /\ UNCHANGED <<df_wt, df_stats, tallies, merged, records, grouped, counts,
                   n_arg, n_ret>>
    /\ UNCHANGED other_results

\* fighter_summary is called: lines 300-307.
FighterSummaryCall ==
    /\ pc = "start"
    /\ pc' = "fs_loop"
    /\ i' = 1
    /\ tallies' = NewTallies
    /\ UNCHANGED <<df_wt, df_stats, merged, records, grouped, counts, n_arg, n_ret>>
    /\ UNCHANGED other_results

\* One iteration of the loop of line 310.
FighterSummaryLoop ==
    /\ pc = "fs_loop"
    /\ i <= Len(df_wt)
    /\ tallies' = SummaryStep(tallies, df_wt[i])
    /\ i' = i + 1
    /\ UNCHANGED <<df_wt, df_stats, pc, merged, records, grouped, counts, n_arg, n_ret>>
    /\ UNCHANGED other_results

\* Lines 360-387.  With no fighter at all, pd.DataFrame([]) has no column
\* and line 383 raises KeyError.
FighterSummaryBuild ==
    /\ pc = "fs_loop"
    /\ i > Len(df_wt)
    /\ IF Fighters(tallies, df_stats) = {}
       THEN pc' = "fs_raised" /\ merged' = merged
       ELSE pc' = "fs_returned" /\ merged' = Merged(tallies, df_stats)
    /\ UNCHANGED <<df_wt, df_stats, i, tallies, records, grouped, counts, n_arg, n_ret>>
    /\ UNCHANGED other_results

\* ------------------------------------- fighter_wins_by_category_and_method

\* bool(x) of a cell: None and '' are false, NaN and any other text true.
Truthy(x) == x # None /\ x # << >>

\* Lines 416-435: the body of the loop, on one row.
WinsStep(recs, row) ==
    LET method       == row.decision_group
        weight_class == row.wtClass
        p1_res       == ResultCode(row.p1_result)
        p2_res       == ResultCode(row.p2_result)
        winner       == IF p1_res = <<"W">> THEN row.p1_name
                        ELSE IF p2_res = <<"W">> THEN row.p2_name
                        ELSE None
        normalized   == _normalize_name(winner)
    IN  IF Truthy(winner) /\ Truthy(normalized)
        THEN Append(recs, [fighter_name |-> normalized,
                           wtClass |-> weight_class, metodo |-> method])
        ELSE recs

\* Every ordering of the set S.
Orderings(S) ==
    { q \in [1..Cardinality(S) -> S] :
        \A a, b \in 1..Cardinality(S) : a # b => q[a] # q[b] }

\* Line 441, value_counts: the rows of `recs` with no missing key, counted
\* by (fighter_name, wtClass, metodo).
WinGroups(recs) ==
    LET kept == { k \in 1..Len(recs) :
                    recs[k].wtClass # NaNCat /\ recs[k].metodo # NaNCat }
    IN  { [fighter_name |-> recs[k].fighter_name, wtClass |-> recs[k].wtClass,
           metodo |-> recs[k].metodo,
           wins |-> Cardinality({m \in kept : recs[m] = recs[k]})] : k \in kept }

\* fighter_wins_by_category_and_method is called: line 414.
FighterWinsCall ==
    /\ pc \in {"fs_returned", "fs_raised"}
    /\ pc' = "fw_loop"
    /\ i' = 1
    /\ records' = << >>
    /\ UNCHANGED <<df_wt, df_stats, tallies, merged, grouped, counts, n_arg, n_ret>>
    /\ UNCHANGED other_results

\* One iteration of the loop of line 416.
FighterWinsLoop ==
    /\ pc = "fw_loop"
    /\ i <= Len(df_wt)
    /\ records' = WinsStep(records, df_wt[i])
    /\ i' = i + 1
    /\ UNCHANGED <<df_wt, df_stats, pc, tallies, merged, grouped, counts, n_arg, n_ret>>
    /\ UNCHANGED other_results

\* Lines 436-442: an empty frame with the four columns when there is no
\* win, else the groups, most wins first (equal counts in any order).
FighterWinsGroup ==
    /\ pc = "fw_loop"
    /\ i > Len(df_wt)
    /\ pc' = "fw_returned"
    /\ IF records = << >>
       THEN grouped' = << >>
       ELSE \E q \in Orderings(WinGroups(records)) :
               /\ \A a \in 1..(Len(q) - 1) : q[a].wins >= q[a + 1].wins
               /\ grouped' = q
    /\ UNCHANGED <<df_wt, df_stats, i, tallies, merged, records, counts, n_arg, n_ret>>
    /\ UNCHANGED other_results

\* The two per-fighter rollups, one after the other, on tables of which
\* either the fight records or the statistics range widely.
Init ==
    /\ \/ df_wt \in FightTables(FightRows) /\ df_stats = <<JohnDoeStats>>
       \/ df_wt \in FightTables(JoinRows) /\ df_stats \in StatTables
    /\ pc = "start"
    /\ i = 1
    /\ tallies = NewTallies
    /\ merged = EmptyDict
    /\ records = << >>
    /\ grouped = << >>
    /\ counts = << >>
    /\ n_arg = None
    /\ n_ret = << >>
    /\ NoOtherResults

Next ==
    \/ FighterSummaryCall
    \/ FighterSummaryLoop
    \/ FighterSummaryBuild
    \/ FighterWinsCall
    \/ FighterWinsLoop
    \/ FighterWinsGroup

Spec == Init /\ [][Next]_vars

\* The same program on tables whose rows differ in names and results only.
InitSpelling ==
    /\ df_wt \in FightTables(SpellingRows)
    /\ df_stats = <<JohnDoeStats>>
    /\ pc = "start"
    /\ i = 1
    /\ tallies = NewTallies
    /\ merged = EmptyDict
    /\ records = << >>
    /\ grouped = << >>
    /\ counts = << >>
    /\ n_arg = None
    /\ n_ret = << >>
    /\ NoOtherResults

SpecSpelling == InitSpelling /\ [][Next]_vars

\* ------------------------------------------------------------ _normalize_name

NameChars == {"a", "B", " ", ","}

\* None, NaN and every string of at most MaxLen characters.
NameInputs == {None, NaN} \cup SeqsUpTo(NameChars, MaxLen)

\* _normalize_name applied to the argument, then to what it returned.
NormalizeName ==
    /\ pc = "normalize"
    /\ Len(n_ret) < 2
    /\ n_ret' = Append(n_ret, _normalize_name(IF n_ret = << >> THEN n_arg
                                             ELSE n_ret[Len(n_ret)]))
    /\ UNCHANGED <<df_wt, df_stats, pc, i, tallies, merged, records, grouped,
                   counts, n_arg>>
    /\ UNCHANGED other_results

InitNorm ==
    /\ n_arg \in NameInputs
    /\ n_ret = << >>
    /\ pc = "normalize"
    /\ df_wt = << >>
    /\ df_stats = << >>
    /\ i = 1
    /\ tallies = NewTallies
    /\ merged = EmptyDict
    /\ records = << >>
    /\ grouped = << >>
    /\ counts = << >>
    /\ NoOtherResults

NextNorm == NormalizeName

SpecNorm == InitNorm /\ [][NextNorm]_vars

\* ------------------------------------------------- win_percentages_by_method

\* decision_group cells: the five groups of the data set and a missing one.
MethodCells ==
    {"KO/TKO", "Submission", "Decision", "DQ", "Unkown/Other", NaNCat}

WeightCells == {"Lightweight", "Heavyweight", NaNCat}

\* Rows that differ in decision_group and wtClass only.
MethodRows ==
    { FightRow(DoeJohn, AnnLee, <<"W">>, <<"L">>,
               [decision_group |-> m, wtClass |-> w, round |-> Num(1)]) :
        m \in MethodCells, w \in WeightCells }

\* Five records, each with a method group of its own.
FiveMethods ==
    << FightRow(DoeJohn, AnnLee, <<"W">>, <<"L">>,
           [decision_group |-> "KO/TKO", wtClass |-> "Lightweight", round |-> Num(1)]),
       FightRow(DoeJohn, AnnLee, <<"W">>, <<"L">>,
           [decision_group |-> "Submission", wtClass |-> "Lightweight", round |-> Num(1)]),
       FightRow(DoeJohn, AnnLee, <<"W">>, <<"L">>,
           [decision_group |-> "Decision", wtClass |-> "Heavyweight", round |-> Num(1)]),
       FightRow(DoeJohn, AnnLee, <<"W">>, <<"L">>,
           [decision_group |-> "DQ", wtClass |-> "Heavyweight", round |-> Num(1)]),
       FightRow(DoeJohn, AnnLee, <<"W">>, <<"L">>,
           [decision_group |-> "Unkown/Other", wtClass |-> "Lightweight", round |-> Num(1)]) >>

\* The tables given to the two method distributions.
MethodTables == SeqsUpTo(MethodRows, MaxRows) \cup {FiveMethods}

\* value_counts(dropna=False): a missing group is counted like any other.
ValueCountsKeepNa(df) ==
    LET values == {df[k].decision_group : k \in 1..Len(df)}
    IN  [v \in values |-> Cardinality({k \in 1..Len(df) : df[k].decision_group = v})]

\* Line 149, df_wt['decision_group'].value_counts(): how often each
\* value occurs, missing values left out.
ValueCounts(df) ==
    LET values == {df[k].decision_group : k \in 1..Len(df)} \ {NaNCat}
    IN  [v \in values |-> Cardinality({k \in 1..Len(df) : df[k].decision_group = v})]

RECURSIVE SumOver(_, _)
\* The sum of f over the set S.
SumOver(f, S) ==
    IF S = {} THEN 0
    ELSE LET x == CHOOSE x \in S : TRUE
         IN  f[x] + SumOver(f, S \ {x})

\* Shares whose denominator is the number of rows of the table.
MethodSharesOfLen(df) ==
    LET vc == ValueCounts(df)
    IN  { [metodo |-> v, quantidade |-> vc[v], percentual |-> Pct(vc[v], Len(df))] :
            v \in DOMAIN vc }

\* Lines 150-151: the rows, percentual = quantidade / quantidade.sum() * 100.
MethodShares(df) ==
    LET vc    == ValueCounts(df)
        total == SumOver(vc, DOMAIN vc)
    IN  { [metodo |-> v, quantidade |-> vc[v], percentual |-> Pct(vc[v], total)] :
            v \in DOMAIN vc }

\* a/b >= c/d for fractions <<a, b>> and <<c, d>>
FracGeq(x, y) == x[1] * y[2] >= y[1] * x[2]

\* win_percentages_by_method, lines 149-153: the rows, largest percentual
\* first (equal ones in any order).
WinPercentagesByMethod ==
    /\ pc = "distribution"
    /\ pc' = "wm_returned"
    /\ \E q \in Orderings(MethodShares(df_wt)) :
          /\ \A a \in 1..(Len(q) - 1) : FracGeq(q[a].percentual, q[a + 1].percentual)
          /\ counts' = q
    /\ UNCHANGED <<df_wt, df_stats, i, tallies, merged, records, grouped, n_arg, n_ret>>
    /\ UNCHANGED other_results

\* ---------------------------------------- win_percentages_by_weight_and_method

\* The category strings in the order Python compares strings.
CellOrder ==
    <<"DQ", "Decision", "Heavyweight", "KO/TKO", "Lightweight", "Submission",
      "Technical", "Unkown/Other">>

\* The place of v in that order; groupby puts a missing key last.
Rank(v) ==
    IF \E k \in 1..Len(CellOrder) : CellOrder[k] = v
    THEN CHOOSE k \in 1..Len(CellOrder) : CellOrder[k] = v
    ELSE Len(CellOrder) + 1

\* The records df counts under the keys (w, m).
RecordsOfGroup(df, w, m) ==
    {k \in 1..Len(df) : df[k].wtClass = w /\ df[k].decision_group = m}

\* A groupby(dropna=False): a missing key makes a group like any other.
GroupSizesKeepNa(df) ==
    { [wtClass |-> df[k].wtClass, decision_group |-> df[k].decision_group,
       quantidade |-> Cardinality(RecordsOfGroup(df, df[k].wtClass,
                                                 df[k].decision_group))] :
        k \in 1..Len(df) }

\* Line 172, groupby(['wtClass', 'decision_group']).size(): the size of
\* every group that occurs; rows with a missing key are in no group.
GroupSizes(df) ==
    LET kept == { k \in 1..Len(df) :
                    df[k].wtClass # NaNCat /\ df[k].decision_group # NaNCat }
    IN  { [wtClass |-> df[k].wtClass, decision_group |-> df[k].decision_group,
           quantidade |-> Cardinality(RecordsOfGroup(df, df[k].wtClass,
                                                     df[k].decision_group))] :
            k \in kept }

\* A total taken over every group, whatever its weight class.
TotalOfAllClasses(G, w) == SumOver([r \in G |-> r.quantidade], G)

\* Line 174, groupby('wtClass')['quantidade'].transform('sum'): the total
\* of the groups of weight class w.
TotalOfClass(G, w) ==
    LET same == {r \in G : r.wtClass = w}
    IN  SumOver([r \in same |-> r.quantidade], same)

\* Lines 172-177: the rows, percentual = quantidade / totals * 100 and
\* decision_group renamed metodo.
WeightMethodShares(df) ==
    LET G == GroupSizes(df)
    IN  { [wtClass |-> r.wtClass, metodo |-> r.decision_group,
           quantidade |-> r.quantidade,
           percentual |-> Pct(r.quantidade, TotalOfClass(G, r.wtClass))] :
            r \in G }

\* The order groupby gives its groups: by wtClass, then by method.
KeyLeq(a, b) ==
    \/ Rank(a.wtClass) < Rank(b.wtClass)
    \/ a.wtClass = b.wtClass /\ Rank(a.metodo) <= Rank(b.metodo)

RECURSIVE SortByKeys(_)
SortByKeys(S) ==
    IF S = {} THEN << >>
    ELSE LET first == CHOOSE r \in S : \A o \in S : KeyLeq(r, o)
         IN  <<first>> \o SortByKeys(S \ {first})

\* win_percentages_by_weight_and_method, lines 172-178.
WinPercentagesByWeightAndMethod ==
    /\ pc = "wm_returned"
    /\ pc' = "wwm_returned"
    /\ by_weight' = SortByKeys(WeightMethodShares(df_wt))
    /\ UNCHANGED <<df_wt, df_stats, i, tallies, merged, records, grouped, counts,
                   n_arg, n_ret, sf_stats, metric, top_n, subset>>

InitDist ==
    /\ df_wt \in MethodTables
    /\ pc = "distribution"
    /\ df_stats = << >>
    /\ i = 1
    /\ tallies = NewTallies
    /\ merged = EmptyDict
    /\ records = << >>
    /\ grouped = << >>
    /\ counts = << >>
    /\ n_arg = None
    /\ n_ret = << >>
    /\ NoOtherResults

NextDist ==
    \/ WinPercentagesByMethod
    \/ WinPercentagesByWeightAndMethod

SpecDist == InitDist /\ [][NextDist]_vars

\* ------------------------------------------ summary_fighter_stats, top_fighters_by_metric

\* The columns of the statistics table after load_ufc_stats.
StatColumns ==
    {"fighter_name", "SLpM", "Str_Acc_Pct", "SApM", "Str_Def_Pct", "TD_Avg",
     "TD_Acc_Pct", "TD_Def_Pct", "Sub_Avg"}

\* A row of the statistics table with all its columns.
WideStatRow(name, str_acc, td_acc) ==
    [fighter_name |-> name, Str_Acc_Pct |-> str_acc, TD_Acc_Pct |-> td_acc,
     SLpM |-> Num(3), TD_Avg |-> Num(1), Sub_Avg |-> NaNNum,
     SApM |-> Num(2), Str_Def_Pct |-> Num(55), TD_Def_Pct |-> Num(60)]

\* Rows whose strike accuracy and takedown accuracy vary, missing included.
WideStatRows ==
    { WideStatRow(IF td_acc = NaNNum THEN Zed ELSE JohnDoe, str_acc, td_acc) :
        str_acc \in {NaNNum, Num(40), Num(50), Num(65)},
        td_acc \in {NaNNum, Num(30)} }

\* The metric names a caller passes: columns of the table and a name
\* that is no column.
MetricArgs == {"Str_Acc_Pct", "TD_Acc_Pct", "Str_Def_Pct", "Reach"}

\* a/b <= c/d for fractions <<a, b>> and <<c, d>>
FracLeq(x, y) == x[1] * y[2] <= y[1] * x[2]

\* The fraction n / d in lowest terms (d > 0).
Reduce(n, d) ==
    LET g == GCD(n, d)
    IN  IF n = 0 THEN <<0, 1>> ELSE <<n \div g, d \div g>>

\* The rows of df whose column col is not missing.
NonMissing(df, col) == {k \in 1..Len(df) : df[k][col] # NaNNum}

RECURSIVE ColumnSum(_, _, _)
\* The sum of column col over the rows K of df, as a fraction.
ColumnSum(df, col, K) ==
    IF K = {} THEN <<0, 1>>
    ELSE LET k    == CHOOSE k \in K : TRUE
             rest == ColumnSum(df, col, K \ {k})
             x    == df[k][col]
         IN  <<rest[1] * x[2] + x[1] * rest[2], rest[2] * x[2]>>

\* A mean that divides the sum by the number of all rows.
MeanOverAllRows(df, col) ==
    LET K   == NonMissing(df, col)
        sum == ColumnSum(df, col, K)
    IN  IF K = {} THEN NaNNum ELSE Reduce(sum[1], sum[2] * Len(df))

\* Series.mean(): the sum of the values that are not missing over their
\* number; NaN when there is none.
MeanOf(df, col) ==
    LET K   == NonMissing(df, col)
        sum == ColumnSum(df, col, K)
    IN  IF K = {} THEN NaNNum ELSE Reduce(sum[1], sum[2] * Cardinality(K))

RECURSIVE SortedValues(_, _, _)
\* The values of column col over the rows K of df, smallest first.
SortedValues(df, col, K) ==
    IF K = {} THEN << >>
    ELSE LET k == CHOOSE a \in K : \A b \in K : FracLeq(df[a][col], df[b][col])
         IN  <<df[k][col]>> \o SortedValues(df, col, K \ {k})

\* Series.median(): the middle of the sorted values that are not missing,
\* the mean of the two middle ones when their number is even; NaN when
\* there is none.
MedianOf(df, col) ==
    LET v == SortedValues(df, col, NonMissing(df, col))
        n == Len(v)
    IN  IF n = 0 THEN NaNNum
        ELSE IF n % 2 = 1 THEN v[(n + 1) \div 2]
        ELSE LET a == v[n \div 2]
                 b == v[n \div 2 + 1]
             IN  Reduce(a[1] * b[2] + b[1] * a[2], 2 * a[2] * b[2])

\* Lines 199-212: the keys of the dict and the column each one is about.
SummaryKeys ==
    { <<"media_precisao_golpes", "mean", "Str_Acc_Pct">>,
      <<"mediana_precisao_golpes", "median", "Str_Acc_Pct">>,
      <<"media_precisao_quedas", "mean", "TD_Acc_Pct">>,
      <<"mediana_precisao_quedas", "median", "TD_Acc_Pct">>,
      <<"media_quedas_por_luta", "mean", "TD_Avg">>,
      <<"mediana_quedas_por_luta", "median", "TD_Avg">>,
      <<"media_golpes_por_minuto", "mean", "SLpM">>,
      <<"mediana_golpes_por_minuto", "median", "SLpM">>,
      <<"media_finalizacao_por_luta", "mean", "Sub_Avg">>,
      <<"mediana_finalizacao_por_luta", "median", "Sub_Avg">> }

\* summary_fighter_stats, lines 197-213.
SummaryFighterStats ==
    /\ pc = "statistics"
    /\ pc' = "sf_returned"
    /\ sf_stats' =
          [key \in {e[1] : e \in SummaryKeys} |->
              LET e == CHOOSE e \in SummaryKeys : e[1] = key
              IN  IF e[2] = "mean" THEN MeanOf(df_stats, e[3])
                  ELSE MedianOf(df_stats, e[3])]
    /\ UNCHANGED <<df_wt, df_stats, i, tallies, merged, records, grouped, counts,
                   n_arg, n_ret, by_weight, metric, top_n, subset>>

\* An order with the smallest value first.
IsSortedAscending(q) ==
    \A a \in 1..(Len(q) - 1) : FracLeq(q[a].value, q[a + 1].value)

\* Line 236, sort_values(metric, ascending=False): the largest value
\* first (equal values in any order).
IsSortedDescending(q) ==
    \A a \in 1..(Len(q) - 1) : FracGeq(q[a].value, q[a + 1].value)

\* Line 235, df_stats[['fighter_name', metric]].dropna(): the rows with a
\* name and a value of the metric.
Subset(df, m) ==
    {k \in 1..Len(df) : df[k].fighter_name # NaN /\ df[k][m] # NaNNum}

\* Line 236, head(top_n): the first n rows.
Head_n(q, n) == SubSeq(q, 1, IF Len(q) < n THEN Len(q) ELSE n)

\* top_fighters_by_metric, lines 233-237, with a metric and a top_n.
TopFightersByMetric ==
    /\ pc = "sf_returned"
    /\ \E m \in MetricArgs, n \in 0..MaxTop :
          /\ metric' = m
          /\ top_n' = n
          /\ IF m \notin StatColumns
             THEN pc' = "tf_raised" /\ subset' = subset
             ELSE /\ pc' = "tf_returned"
                  /\ \E o \in Orderings(Subset(df_stats, m)) :
                        LET q == [a \in 1..Len(o) |->
                                    [fighter_name |-> df_stats[o[a]].fighter_name,
                                     value |-> df_stats[o[a]][m]]]
                        IN  /\ IsSortedDescending(q)
                            /\ subset' = Head_n(q, n)
    /\ UNCHANGED <<df_wt, df_stats, i, tallies, merged, records, grouped, counts,
                   n_arg, n_ret, by_weight, sf_stats>>

InitStats ==
    /\ df_stats \in SeqsUpTo(WideStatRows, MaxStatRows)
    /\ pc = "statistics"
    /\ df_wt = << >>
    /\ i = 1
    /\ tallies = NewTallies
    /\ merged = EmptyDict
    /\ records = << >>
    /\ grouped = << >>
    /\ counts = << >>
    /\ n_arg = None
    /\ n_ret = << >>
    /\ NoOtherResults

NextStats ==
    \/ SummaryFighterStats
    \/ TopFightersByMetric

SpecStats == InitStats /\ [][NextStats]_vars

\* ------------------------------------------------------------ repeated calls

\* The fight-record tables of successive calls.
CallFightTables == SeqsUpTo(PriorRows, MaxFights)

\* The statistics tables of successive calls.
CallStatTables == {<< >>, <<JohnDoeStats>>}

\* The caller goes on from the per-fighter rollups to the distributions,
\* on the same tables.
RollupsContinue ==
    /\ pc = "fw_returned"
    /\ pc' = "distribution"
    /\ UNCHANGED <<df_wt, df_stats, i, tallies, merged, records, grouped, counts,
                   n_arg, n_ret>>
    /\ UNCHANGED other_results

\* The caller starts over with tables of its choice; what the calls before
\* left behind is still there.
RollupsAgain ==
    /\ pc = "wwm_returned"
    /\ pc' = "start"
    /\ df_wt' \in CallFightTables
    /\ df_stats' \in CallStatTables
    /\ UNCHANGED <<i, tallies, merged, records, grouped, counts, n_arg, n_ret>>
    /\ UNCHANGED other_results

InitCalls ==
    /\ df_wt \in CallFightTables
    /\ df_stats \in CallStatTables
    /\ pc = "start"
    /\ i = 1
    /\ tallies = NewTallies
    /\ merged = EmptyDict
    /\ records = << >>
    /\ grouped = << >>
    /\ counts = << >>
    /\ n_arg = None
    /\ n_ret = << >>
    /\ NoOtherResults

NextCalls ==
    \/ FighterSummaryCall
    \/ FighterSummaryLoop
    \/ FighterSummaryBuild
    \/ FighterWinsCall
    \/ FighterWinsLoop
    \/ FighterWinsGroup
    \/ RollupsContinue
    \/ WinPercentagesByMethod
    \/ WinPercentagesByWeightAndMethod
    \/ RollupsAgain

\* The four rollups called again and again, on one table after another.
SpecCalls == InitCalls /\ [][NextCalls]_vars

\* ------------------------------------------------------------ reference definitions

\* s without its leading and trailing whitespace, by position.
RefTrim(s) ==
    LET solid == {k \in 1..Len(s) : s[k] \notin Whitespace}
    IN  IF solid = {} THEN << >>
        ELSE SubSeq(s, CHOOSE a \in solid : \A b \in solid : a <= b,
                       CHOOSE a \in solid : \A b \in solid : a >= b)

\* The canonical name of a raw name: null for null; for a string with a
\* comma, trim(after the first comma) + " " + trim(before it); otherwise
\* the trimmed string.
RefNormalize(x) ==
    IF x = None \/ x = NaN THEN None
    ELSE LET commas == {k \in 1..Len(x) : x[k] = ","}
         IN  IF commas = {} THEN RefTrim(x)
             ELSE LET c == CHOOSE a \in commas : \A b \in commas : a <= b
                  IN  RefTrim(SubSeq(x, c + 1, Len(x))) \o <<" ">>
                          \o RefTrim(SubSeq(x, 1, c - 1))

\* ------------------------------------------------------------ claims

\* C8: _normalize_name equals its reference definition for every input:
\* null/NaN gives null; a string with a comma is split at its first comma
\* and gives trim(after) + " " + trim(before); a string without a comma is
\* trimmed and otherwise unchanged, letter case included.
C8_NormalizeMatchesReference ==
    \A k \in 1..Len(n_ret) :
        n_ret[k] = RefNormalize(IF k = 1 THEN n_arg ELSE n_ret[k - 1])

\* "B, a" has been normalized to "a B".
C8_Witness ==
    /\ n_arg = <<"B", ",", " ", "a">>
    /\ Len(n_ret) >= 1
    /\ n_ret[1] = <<"a", " ", "B">>

\* C9: _normalize_name is idempotent on names without a comma: applied to
\* its own result it returns that result.
C9_NormalizeIdempotent ==
    (Len(n_ret) = 2 /\ ~HasComma(n_arg)) => n_ret[2] = n_ret[1]

\* " a B" has been normalized twice, to "a B" both times.
C9_Witness ==
    /\ n_arg = <<" ", "a", " ", "B">>
    /\ n_ret = << <<"a", " ", "B">>, <<"a", " ", "B">> >>

\* The records of df whose decision_group is m.
RecordsWithMethod(df, m) == {k \in 1..Len(df) : df[k].decision_group = m}

\* The records of df whose decision_group is not missing.
RecordsWithAMethod(df) == {k \in 1..Len(df) : df[k].decision_group # NaNCat}

\* C10 as stated: every row's quantidade is the number of records with
\* that method and its percentual is quantidade over the number of all
\* records passed in, times 100.
C10_ShareOfAllRecords ==
    pc = "wm_returned" =>
        \A k \in 1..Len(counts) :
            /\ counts[k].quantidade
                   = Cardinality(RecordsWithMethod(df_wt, counts[k].metodo))
            /\ counts[k].percentual = Pct(counts[k].quantidade, Len(df_wt))

\* C10 as amended: every row's quantidade is the number of records with
\* that method and its percentual is quantidade over the number of records
\* whose decision_group is not missing, times 100.
C10_ShareOfRecordsWithAMethod ==
    pc = "wm_returned" =>
        \A k \in 1..Len(counts) :
            /\ counts[k].quantidade
                   = Cardinality(RecordsWithMethod(df_wt, counts[k].metodo))
            /\ counts[k].percentual
                   = Pct(counts[k].quantidade,
                         Cardinality(RecordsWithAMethod(df_wt)))

\* Three records, one without a method: the other two share 100 percent.
C10_Witness ==
    /\ pc = "wm_returned"
    /\ Len(df_wt) = 3
    /\ Cardinality(RecordsWithAMethod(df_wt)) = 2
    /\ Len(counts) = 2
    /\ counts[1].percentual = Num(50)

RECURSIVE FracSum(_, _)
\* The sum of the percentual values of the first n rows of q, as a fraction.
FracSum(q, n) ==
    IF n = 0 THEN <<0, 1>>
    ELSE LET rest == FracSum(q, n - 1)
             x    == q[n].percentual
         IN  <<rest[1] * x[2] + x[1] * rest[2], rest[2] * x[2]>>

\* The percentual values of the rows of q sum to 100.
SumsTo100(q) == FracSum(q, Len(q))[1] = 100 * FracSum(q, Len(q))[2]

RECURSIVE QuantidadeSum(_, _)
\* The sum of the quantidade values of the first n rows of q.
QuantidadeSum(q, n) ==
    IF n = 0 THEN 0 ELSE QuantidadeSum(q, n - 1) + q[n].quantidade

\* C11 as stated: for every fight-record set with at least one record the
\* percentual values of win_percentages_by_method sum to 100.
C11_SharesSumTo100 ==
    (pc = "wm_returned" /\ Len(df_wt) >= 1) => SumsTo100(counts)

\* C11 as amended: for every fight-record set with at least one record
\* whose decision_group is not missing, the percentual values sum to 100;
\* for every set the quantidade values sum to the percentage denominator,
\* the number of records with a method; five records with a method each
\* of their own give five rows of 20 percent.
C11_SharesOfMethodsSumTo100 ==
    pc = "wm_returned" =>
        /\ RecordsWithAMethod(df_wt) # {} => SumsTo100(counts)
        /\ QuantidadeSum(counts, Len(counts))
               = Cardinality(RecordsWithAMethod(df_wt))
        /\ df_wt = FiveMethods =>
               /\ Len(counts) = 5
               /\ \A k \in 1..5 : counts[k].percentual = Num(20)

\* The five-method scenario has been computed: five rows of 20 percent.
C11_Witness ==
    /\ pc = "wm_returned"
    /\ df_wt = FiveMethods
    /\ Len(counts) = 5
    /\ counts[5].percentual = Num(20)
    /\ counts[5].quantidade = 1

\* The rows of by_weight with the keys (w, m).
RowsOfGroup(w, m) ==
    {k \in 1..Len(by_weight) : by_weight[k].wtClass = w /\ by_weight[k].metodo = m}

\* The keys (wtClass, decision_group) of the records of df.
Combinations(df) == {<<df[k].wtClass, df[k].decision_group>> : k \in 1..Len(df)}

\* C12 as stated: every (wtClass, method) combination with at least one
\* record is in exactly one row, no other combination is in a row, and a
\* row's percentual is its quantidade over the number of records of its
\* weight class, times 100.
C12_ShareWithinWeightClass ==
    pc = "wwm_returned" =>
        /\ \A c \in Combinations(df_wt) : Cardinality(RowsOfGroup(c[1], c[2])) = 1
        /\ \A k \in 1..Len(by_weight) :
              LET r == by_weight[k]
              IN  /\ <<r.wtClass, r.metodo>> \in Combinations(df_wt)
                  /\ r.percentual
                        = Pct(r.quantidade,
                              Cardinality({j \in 1..Len(df_wt) :
                                             df_wt[j].wtClass = r.wtClass}))

\* C12 as amended: every combination of a weight class and a method, both
\* not missing, with at least one record is in exactly one row, no other
\* combination is in a row, a row's quantidade is the number of records of
\* the combination and its percentual is quantidade over the number of
\* records of its weight class whose method is not missing, times 100.
C12_ShareWithinWeightClassOfMethods ==
    pc = "wwm_returned" =>
        /\ \A c \in Combinations(df_wt) :
              Cardinality(RowsOfGroup(c[1], c[2]))
                  = IF c[1] # NaNCat /\ c[2] # NaNCat THEN 1 ELSE 0
        /\ \A k \in 1..Len(by_weight) :
              LET r == by_weight[k]
              IN  /\ <<r.wtClass, r.metodo>> \in Combinations(df_wt)
                  /\ r.quantidade
                        = Cardinality({j \in 1..Len(df_wt) :
                                         /\ df_wt[j].wtClass = r.wtClass
                                         /\ df_wt[j].decision_group = r.metodo})
                  /\ r.percentual
                        = Pct(r.quantidade,
                              Cardinality({j \in 1..Len(df_wt) :
                                             /\ df_wt[j].wtClass = r.wtClass
                                             /\ df_wt[j].decision_group # NaNCat}))

\* Two lightweight methods and one heavyweight: halves at lightweight,
\* the whole at heavyweight, no third of the three records.
C12_Witness ==
    /\ pc = "wwm_returned"
    /\ Len(df_wt) = 3
    /\ Len(by_weight) = 3
    /\ by_weight[1].wtClass = "Heavyweight" /\ by_weight[1].percentual = Num(100)
    /\ by_weight[2].wtClass = "Lightweight" /\ by_weight[2].percentual = Num(50)
    /\ by_weight[3].wtClass = "Lightweight" /\ by_weight[3].percentual = Num(50)

\* The rows of by_weight of weight class w, in their order.
RowsOfClass(w) == SelectSeq(by_weight, LAMBDA r : r.wtClass = w)

\* C13: for every weight class in the output of
\* win_percentages_by_weight_and_method, the percentual values of the rows
\* of that class sum to 100, whatever the other classes hold.
C13_SharesSumTo100PerClass ==
    pc = "wwm_returned" =>
        \A k \in 1..Len(by_weight) : SumsTo100(RowsOfClass(by_weight[k].wtClass))

\* The five-method scenario: three lightweight rows of a third each and
\* two heavyweight rows of a half each.
C13_Witness ==
    /\ pc = "wwm_returned"
    /\ df_wt = FiveMethods
    /\ Len(RowsOfClass("Lightweight")) = 3
    /\ Len(RowsOfClass("Heavyweight")) = 2
    /\ by_weight[1].percentual = Num(50)
    /\ by_weight[5].percentual = <<100, 3>>

\* ------------------------------------------------------------ claims on the rollups

\* fighter_summary has returned its result.
SummaryReturned == pc \in {"fs_returned", "fw_loop", "fw_returned"} /\ DOMAIN merged # {}

\* The raw names of the two sides of a row.
SideNames(row) == <<row.p1_name, row.p2_name>>

\* The canonical names, null left out, of the first n records of df.
RecordFighters(df, n) ==
    { RefNormalize(SideNames(df[k])[s]) : k \in 1..n, s \in 1..2 } \ {None}

\* The fighter names of the statistics table.
StatFighters(stats) == {stats[j].fighter_name : j \in 1..Len(stats)}

\* The rows of the result that carry the name f.
RowsOf(f) == {r \in DOMAIN merged : r.summary.fighter_name = f}

\* How many rows of the result carry the name f.
RowCount(f) == SumOver(merged, RowsOf(f))

\* The record of the end-to-end scenario: "Doe, John" beats "Ann Lee" by
\* KO/TKO in round 2 at lightweight.
ScenarioRow == FightRow(DoeJohn, AnnLee, <<"W">>, <<"L">>, KoLightweight2)

\* C1: a fighter written "Last, First" in the records and "First Last" in
\* the statistics is one fighter: the row under the canonical name carries
\* the fight tallies of the records and the metrics of the statistics
\* record of that name; a fighter of the records with no statistics record
\* under the canonical name has every joined metric null.
C1_NamesReconciled ==
    SummaryReturned =>
        /\ \A f \in RecordFighters(df_wt, Len(df_wt)) :
              /\ RowsOf(f) # {}
              /\ \A r \in RowsOf(f) :
                    /\ r.summary.total_fights >= 1
                    /\ r.summary.total_fights = tallies.total_fights[f]
                    /\ IF f \in StatFighters(df_stats)
                       THEN \E j \in 1..Len(df_stats) :
                               /\ df_stats[j].fighter_name = f
                               /\ r.stats = Metrics(df_stats[j])
                       ELSE r.stats = NoMetrics
              /\ \A j \in 1..Len(df_stats) :
                    df_stats[j].fighter_name = f =>
                        \E r \in RowsOf(f) : r.stats = Metrics(df_stats[j])
        /\ (df_wt = <<ScenarioRow>> /\ df_stats = <<JohnDoeStats>>) =>
              /\ \E r \in RowsOf(JohnDoe) :
                    /\ r.summary.total_fights = 1 /\ r.summary.total_wins = 1
                    /\ r.summary.wins_ko = 1 /\ r.summary.wins_round1 = 0
                    /\ r.summary.win_percent = Num(100)
                    /\ r.stats = Metrics(JohnDoeStats)
              /\ \E r \in RowsOf(AnnLee) :
                    /\ r.summary.total_fights = 1 /\ r.summary.total_wins = 0
                    /\ r.summary.win_percent = Num(0)
                    /\ r.stats = NoMetrics
              /\ DOMAIN merged = RowsOf(JohnDoe) \cup RowsOf(AnnLee)

\* The scenario has run: "John Doe" has a row with one fight, one win and
\* the metrics of the statistics table.
C1_Witness ==
    /\ pc = "fs_returned"
    /\ df_wt = <<ScenarioRow>>
    /\ df_stats = <<JohnDoeStats>>
    /\ \E r \in RowsOf(JohnDoe) :
          r.summary.total_fights = 1 /\ r.stats.Str_Acc_Pct = Num(50)

\* C2 as stated: the result has exactly one row per distinct fighter of
\* the union of the records' canonical names and the statistics table's
\* names, and a fighter of the statistics table only has total_fights = 0.
C2_OneRowPerFighter ==
    SummaryReturned =>
        LET union == RecordFighters(df_wt, Len(df_wt)) \cup StatFighters(df_stats)
        IN  /\ {r.summary.fighter_name : r \in DOMAIN merged} = union
            /\ \A f \in union : RowCount(f) = 1
            /\ \A f \in union \ RecordFighters(df_wt, Len(df_wt)) :
                  \A r \in RowsOf(f) : r.summary.total_fights = 0

\* C3 as stated: total_fights of a fighter is the number of records in
\* which the canonical name is on side 1 or on side 2, a record counted
\* once per fighter.  Checked on the records the loop has gone through.
C3_TotalFightsCountsRecords ==
    pc = "fs_loop" =>
        \A f \in (RecordFighters(df_wt, i - 1) \cup DOMAIN tallies.total_fights)
                      \ {<< >>} :
            Get(tallies.total_fights, f)
                = Cardinality({ k \in 1..(i - 1) :
                                  \/ RefNormalize(df_wt[k].p1_name) = f
                                  \/ RefNormalize(df_wt[k].p2_name) = f })

\* A result cell that reads "W" once trimmed, in either letter case.
RefIsWin(cell) ==
    cell # NaN /\ cell # None /\ RefTrim(cell) \in {<<"W">>, <<"w">>}

WinCounters ==
    {"total_wins", "wins_ko", "wins_sub", "wins_dec", "wins_dq", "wins_other",
     "wins_round1"}

Buckets == {"wins_ko", "wins_sub", "wins_dec", "wins_dq", "wins_other"}

\* The bucket of a method group.
RefBucket(method) ==
    CASE method = "KO/TKO"     -> "wins_ko"
      [] method = "Submission" -> "wins_sub"
      [] method = "Decision"   -> "wins_dec"
      [] method = "DQ"         -> "wins_dq"
      [] OTHER                 -> "wins_other"

\* The loop of fighter_summary is about to process df_wt[i].
InSummaryLoop == pc = "fs_loop" /\ i <= Len(df_wt)

\* The loop of fighter_wins_by_category_and_method is about to process df_wt[i].
InWinsLoop == pc = "fw_loop" /\ i <= Len(df_wt)

\* Every name that has a win counter before or after the step.
CountedNames ==
    UNION {DOMAIN tallies[d] \cup DOMAIN tallies'[d] : d \in WinCounters}

\* The step changes no win counter.
NoWinCredited == \A d \in WinCounters : tallies'[d] = tallies[d]

\* The step adds one win to f: 1 to total_wins, 1 to the bucket of the
\* row's method and to no other bucket, 1 to wins_round1 iff round = 1.
WinCredited(f, row) ==
    /\ Get(tallies'.total_wins, f) = Get(tallies.total_wins, f) + 1
    /\ \A b \in Buckets :
          Get(tallies'[b], f)
              = Get(tallies[b], f)
                    + (IF b = RefBucket(row.decision_group) THEN 1 ELSE 0)
    /\ Get(tallies'.wins_round1, f)
          = Get(tallies.wins_round1, f) + (IF row.round = Num(1) THEN 1 ELSE 0)

\* The step changes no win counter of a name other than f.
OthersUnchanged(f) ==
    \A d \in WinCounters : \A g \in CountedNames \ {f} :
        Get(tallies'[d], g) = Get(tallies[d], g)

\* C4 as stated: for a record in which exactly one side's result is "W",
\* the step adds exactly 1 to total_wins of that side's normalized name,
\* 1 to exactly one method bucket of that fighter chosen by decision_group,
\* 1 to wins_round1 iff round = 1, and nothing to a win counter of anybody
\* else.
C4_WinGoesToWinningSide ==
    [][ InSummaryLoop =>
            LET row == df_wt[i]
                w1  == RefIsWin(row.p1_result)
                w2  == RefIsWin(row.p2_result)
                f   == RefNormalize(IF w1 THEN row.p1_name ELSE row.p2_name)
            IN  (w1 # w2) =>
                    /\ f # None
                    /\ WinCredited(f, row)
                    /\ OthersUnchanged(f) ]_vars

\* C4 as amended: for a record in which exactly one side's result is "W",
\* if that side's normalized name is not null the step adds exactly 1 to
\* its total_wins, 1 to exactly one of its method buckets chosen by
\* decision_group, 1 to its wins_round1 iff round = 1, and nothing to a win
\* counter of any other name; if that name is null no win counter changes.
C4_WinGoesToNamedWinningSide ==
    [][ InSummaryLoop =>
            LET row == df_wt[i]
                w1  == RefIsWin(row.p1_result)
                w2  == RefIsWin(row.p2_result)
                f   == RefNormalize(IF w1 THEN row.p1_name ELSE row.p2_name)
            IN  (w1 # w2) =>
                    IF f = None THEN NoWinCredited
                    ELSE WinCredited(f, row) /\ OthersUnchanged(f) ]_vars

\* "Doe, John" won in round 1 by KO/TKO, then "John Doe" did again: two
\* wins under the one canonical name.
C4_Witness ==
    /\ pc = "fs_loop"
    /\ i = 3
    /\ RefIsWin(df_wt[2].p1_result) /\ ~RefIsWin(df_wt[2].p2_result)
    /\ df_wt[2].p1_name = JohnDoe
    /\ Get(tallies.total_wins, JohnDoe) = 2
    /\ Get(tallies.wins_ko, JohnDoe) = 2
    /\ Get(tallies.wins_round1, JohnDoe) = 2
    /\ Get(tallies.total_wins, AnnLee) = 0

\* How many sides of the row carry the canonical name f.
SidesNamed(row, f) ==
    Cardinality({s \in 1..2 : RefNormalize(SideNames(row)[s]) = f})

\* C5: for a record in which neither side's result is "W", no win counter
\* of any fighter changes and fighter_wins_by_category_and_method produces
\* no row for it, while total_fights goes up by 1 for each named side.
C5_NoWinnerStillCounted ==
    [][ LET row == df_wt[i]
            nobody == ~RefIsWin(row.p1_result) /\ ~RefIsWin(row.p2_result)
        IN  /\ (InSummaryLoop /\ nobody) =>
                  /\ NoWinCredited
                  /\ \A f \in (DOMAIN tallies'.total_fights
                               \cup {RefNormalize(row.p1_name),
                                     RefNormalize(row.p2_name)})
                              \ {None, << >>} :
                        Get(tallies'.total_fights, f)
                            = Get(tallies.total_fights, f) + SidesNamed(row, f)
            /\ (InWinsLoop /\ nobody) => records' = records ]_vars

\* Both rollups have gone through a record of two named fighters without
\* a winner: a fight each, no win, no row.
C5_Witness ==
    /\ pc = "fw_loop"
    /\ i = 2
    /\ ~RefIsWin(df_wt[1].p1_result) /\ ~RefIsWin(df_wt[1].p2_result)
    /\ Get(tallies.total_fights, JohnDoe) = 1
    /\ Get(tallies.total_fights, AnnLee) = 1
    /\ tallies.total_wins = EmptyDict
    /\ records = << >>

\* C6 as stated: for a record in which both results are "W", both rollups
\* credit at most one win, and only ever to side 1.
C6_DoubleWinGoesToSide1 ==
    [][ LET row  == df_wt[i]
            both == RefIsWin(row.p1_result) /\ RefIsWin(row.p2_result)
            f1   == RefNormalize(row.p1_name)
        IN  /\ (InSummaryLoop /\ both) =>
                  \/ NoWinCredited
                  \/ f1 # None /\ WinCredited(f1, row) /\ OthersUnchanged(f1)
            /\ (InWinsLoop /\ both) =>
                  \/ records' = records
                  \/ /\ Len(records') = Len(records) + 1
                     /\ SubSeq(records', 1, Len(records)) = records
                     /\ records'[Len(records')].fighter_name = f1 ]_vars

RECURSIVE SummaryTallies(_, _)
\* Lines 300-358: the tallies after the first n rows of df.
SummaryTallies(df, n) ==
    IF n = 0 THEN NewTallies
    ELSE SummaryStep(SummaryTallies(df, n - 1), df[n])

\* fighter_summary(df, stats): the bag of rows, empty when it raises.
FighterSummary(df, stats) ==
    LET t == SummaryTallies(df, Len(df))
    IN  IF Fighters(t, stats) = {} THEN EmptyDict ELSE Merged(t, stats)

RECURSIVE WinRecords(_, _)
\* Lines 414-435: the list of wins after the first n rows of df.
WinRecords(df, n) ==
    IF n = 0 THEN << >>
    ELSE WinsStep(WinRecords(df, n - 1), df[n])

\* fighter_wins_by_category_and_method(df): the set of its rows.
FighterWins(df) == WinGroups(WinRecords(df, Len(df)))

\* Spellings of the result code of a win.
WinSpellings == {<<"W">>, <<"w">>, <<" ", "W", " ">>, <<" ", "w">>}

\* The tables got from df by respelling one result cell that reads "W".
Respelled(df) ==
    { [df EXCEPT ![c[1]][c[2]] = c[3]] :
        c \in { d \in (1..Len(df)) \X {"p1_result", "p2_result"} \X WinSpellings :
                  df[d[1]][d[2]] = <<"W">> } }

\* C7: winner classification is insensitive to the letter case and the
\* surrounding whitespace of the result code: with a result "W" replaced
\* by "w", " W " or " w", fighter_summary and
\* fighter_wins_by_category_and_method return what they returned.
C7_ResultSpellingIgnored ==
    pc = "fw_returned" =>
        \A v \in Respelled(df_wt) :
            /\ FighterSummary(v, df_stats) = merged
            /\ FighterWins(v) = {grouped[k] : k \in 1..Len(grouped)}

\* Both rollups have returned on a table with a result "W" that brought a
\* win into each result.
C7_Witness ==
    /\ pc = "fw_returned"
    /\ Len(df_wt) = 2
    /\ df_wt[2].p1_result = <<"W">>
    /\ df_wt[2].p1_name = DoeJohn
    /\ Get(tallies.total_wins, JohnDoe) >= 1
    /\ \E k \in 1..Len(grouped) : grouped[k].fighter_name = JohnDoe
    /\ Cardinality(Respelled(df_wt)) >= 4

\* The five method buckets of fighter f in the tallies t, added up.
BucketSum(t, f) ==
    Get(t.wins_ko, f) + Get(t.wins_sub, f) + Get(t.wins_dec, f)
        + Get(t.wins_dq, f) + Get(t.wins_other, f)

\* C14: every win fighter_summary credits lands in exactly one of the five
\* buckets: "KO/TKO", "Submission", "Decision" and "DQ" in their own and
\* every other method value (listed, unlisted or missing) in wins_other;
\* hence for every fighter, in the tallies and in the rows of the result,
\* the five buckets sum to total_wins.
C14_EveryWinInOneBucket ==
    [][ /\ InSummaryLoop =>
              LET method == df_wt[i].decision_group
                  bucket == IF method \in {"KO/TKO", "Submission", "Decision", "DQ"}
                            THEN RefBucket(method)
                            ELSE "wins_other"
              IN  \A f \in CountedNames : \A b \in Buckets :
                      Get(tallies'[b], f) - Get(tallies[b], f)
                          = IF b = bucket
                            THEN Get(tallies'.total_wins, f) - Get(tallies.total_wins, f)
                            ELSE 0
        /\ \A f \in DOMAIN tallies'.total_wins :
              BucketSum(tallies', f) = tallies'.total_wins[f]
        /\ \A r \in DOMAIN merged' :
              r.summary.wins_ko + r.summary.wins_sub + r.summary.wins_dec
                  + r.summary.wins_dq + r.summary.wins_other
                  = r.summary.total_wins ]_vars

\* A win by KO/TKO, then a win by no method of the four: one in wins_ko,
\* one in wins_other, two wins in all.
C14_Witness ==
    /\ pc = "fs_returned"
    /\ Len(df_wt) = 2
    /\ df_wt[2].decision_group \in {NaNCat, "Technical", "Unkown/Other"}
    /\ \E f \in DOMAIN tallies.total_wins :
          /\ tallies.total_wins[f] = 2
          /\ Get(tallies.wins_other, f) = 1
          /\ Get(tallies.wins_ko, f) = 1

\* The fraction x is n / d * 100 (d > 0).
IsPctOf(x, n, d) == x # NaNNum /\ x[2] > 0 /\ x[1] * d = 100 * n * x[2]

\* The method counts of a row of the result and their percentages.
PctColumns(s) ==
    { <<s.wins_ko, s.wins_ko_pct>>, <<s.wins_sub, s.wins_sub_pct>>,
      <<s.wins_dec, s.wins_dec_pct>>, <<s.wins_dq, s.wins_dq_pct>>,
      <<s.wins_other, s.wins_other_pct>>, <<s.wins_round1, s.wins_round1_pct>> }

\* C15: in every row of fighter_summary's result, win_percent is
\* total_wins / total_fights * 100 when total_fights > 0 and exactly 0 when
\* total_fights = 0, and each method percentage (and wins_round1_pct) is
\* its count / total_wins * 100 when total_wins > 0 and null when
\* total_wins = 0.
C15_PercentagesWithoutDivisionByZero ==
    SummaryReturned =>
        \A r \in DOMAIN merged :
            LET s == r.summary
            IN  /\ IF s.total_fights > 0
                   THEN IsPctOf(s.win_percent, s.total_wins, s.total_fights)
                   ELSE s.win_percent = Num(0)
                /\ \A c \in PctColumns(s) :
                      IF s.total_wins > 0
                      THEN IsPctOf(c[2], c[1], s.total_wins)
                      ELSE c[2] = NaNNum

\* A fighter of the statistics table without a fight (0 percent, null
\* method percentages) beside one with a win in two fights (50 percent,
\* all by KO/TKO).
C15_Witness ==
    /\ pc = "fs_returned"
    /\ \E r \in RowsOf(Zed) :
          /\ r.summary.total_fights = 0
          /\ r.summary.win_percent = Num(0)
          /\ r.summary.wins_ko_pct = NaNNum
    /\ \E r \in RowsOf(JohnDoe) :
          /\ r.summary.total_fights = 2
          /\ r.summary.total_wins = 1
          /\ r.summary.win_percent = Num(50)
          /\ r.summary.wins_ko_pct = Num(100)
          /\ r.summary.wins_dec_pct = Num(0)

\* The winner the classifier names for a row: the canonical name of the
\* side whose result reads "W" (side 1 when both do), null when neither.
RefWinner(row) ==
    IF RefIsWin(row.p1_result) THEN RefNormalize(row.p1_name)
    ELSE IF RefIsWin(row.p2_result) THEN RefNormalize(row.p2_name)
    ELSE None

\* The records of df with a winner.
RecordsWon(df) == {k \in 1..Len(df) : RefWinner(df[k]) # None}

\* The records of df won by f at weight class w by method m.
RecordsOfTriple(df, f, w, m) ==
    { k \in 1..Len(df) :
        RefWinner(df[k]) = f /\ df[k].wtClass = w /\ df[k].decision_group = m }

RECURSIVE WinsSum(_, _)
\* The sum of the wins values of the first n rows of q.
WinsSum(q, n) == IF n = 0 THEN 0 ELSE WinsSum(q, n - 1) + q[n].wins

\* C16 as stated: fighter_wins_by_category_and_method returns exactly one
\* row per (winner, wtClass, method) triple with at least one win, the
\* row's wins is the number of records of that triple, and the wins values
\* sum to the number of records that have a winner.
C16_OneRowPerWinningTriple ==
    pc = "fw_returned" =>
        /\ \A k \in RecordsWon(df_wt) :
              Cardinality({ a \in 1..Len(grouped) :
                              /\ grouped[a].fighter_name = RefWinner(df_wt[k])
                              /\ grouped[a].wtClass = df_wt[k].wtClass
                              /\ grouped[a].metodo = df_wt[k].decision_group }) = 1
        /\ \A a \in 1..Len(grouped) :
              /\ grouped[a].wins >= 1
              /\ grouped[a].wins
                    = Cardinality(RecordsOfTriple(df_wt, grouped[a].fighter_name,
                                                  grouped[a].wtClass, grouped[a].metodo))
        /\ WinsSum(grouped, Len(grouped)) = Cardinality(RecordsWon(df_wt))

\* C17 as stated: given an empty fight-record table, none of the four
\* rollups raises and each returns an empty result; for fighter_summary
\* this holds also when the statistics table is empty too (with a
\* statistics table its rows are those of the statistics' fighters, all
\* without a fight).
C17_EmptyInputNeverRaises ==
    df_wt = << >> =>
        /\ pc # "fs_raised"
        /\ SummaryReturned =>
              \A r \in DOMAIN merged : r.summary.total_fights = 0
        /\ pc = "fw_returned" => grouped = << >>
        /\ pc \in {"wm_returned", "wwm_returned"} => counts = << >>
        /\ pc = "wwm_returned" => by_weight = << >>

\* A name cell that is null, NaN, empty or whitespace only.
Malformed(name) == name = None \/ name = NaN \/ RefTrim(name) = << >>

\* The eight tallies of fighter_summary.
AllCounters == WinCounters \cup {"total_fights"}

\* Every name with a tally before or after the step.
TalliedNames ==
    UNION {DOMAIN tallies[d] \cup DOMAIN tallies'[d] : d \in AllCounters}

\* C18 as stated: a malformed or missing name (null, NaN, empty or
\* whitespace only) on one side of a record gives that participant no
\* fight count, no win and no row in fighter_summary or in
\* fighter_wins_by_category_and_method, while the validly named other side
\* still gets its fight count and, if its result is "W", its win.
C18_MalformedNameExcluded ==
    [][ \A side \in 1..2 :
          LET row   == df_wt[i]
              name  == SideNames(row)[side]
              other == RefNormalize(SideNames(row)[3 - side])
              won   == RefIsWin(<<row.p1_result, row.p2_result>>[3 - side])
              both  == RefIsWin(row.p1_result) /\ RefIsWin(row.p2_result)
          IN  /\ (InSummaryLoop /\ Malformed(name)
                     /\ ~Malformed(SideNames(row)[3 - side])) =>
                    /\ \A d \in AllCounters : \A g \in TalliedNames \ {other} :
                          Get(tallies'[d], g) = Get(tallies[d], g)
                    /\ Get(tallies'.total_fights, other)
                          = Get(tallies.total_fights, other) + 1
                    /\ Get(tallies'.total_wins, other)
                          = Get(tallies.total_wins, other) + (IF won THEN 1 ELSE 0)
              /\ (InWinsLoop /\ ~both /\ Malformed(name)
                     /\ ~Malformed(SideNames(row)[3 - side])) =>
                    IF won
                    THEN /\ Len(records') = Len(records) + 1
                         /\ records'[Len(records')].fighter_name = other
                    ELSE records' = records
              /\ \A r \in DOMAIN merged' : ~Malformed(r.summary.fighter_name)
              /\ \A k \in 1..Len(grouped') : ~Malformed(grouped'[k].fighter_name) ]_vars

\* C19: top_fighters_by_metric with a metric that is no column of the
\* statistics table raises and returns no result; with a metric that is a
\* column it does not raise and returns at most top_n rows, rows of the
\* table none of which has a missing value of the metric, in
\* non-increasing order of the metric.
C19_UnknownMetricRaises ==
    pc \in {"tf_raised", "tf_returned"} =>
        IF metric \notin StatColumns
        THEN pc = "tf_raised" /\ subset = << >>
        ELSE /\ pc = "tf_returned"
             /\ Len(subset) <= top_n
             /\ \A a \in 1..Len(subset) :
                   /\ subset[a].value # NaNNum
                   /\ \E k \in 1..Len(df_stats) :
                         /\ df_stats[k].fighter_name = subset[a].fighter_name
                         /\ df_stats[k][metric] = subset[a].value
             /\ \A a \in 1..(Len(subset) - 1) :
                   subset[a].value[1] * subset[a + 1].value[2]
                       >= subset[a + 1].value[1] * subset[a].value[2]

\* Three fighters, one without a strike accuracy, ranked by it with
\* top_n = 2: the two with a value, the larger first.
C19_Witness ==
    /\ pc = "tf_returned"
    /\ metric = "Str_Acc_Pct"
    /\ top_n = 2
    /\ Len(df_stats) = 3
    /\ df_stats[2].Str_Acc_Pct = NaNNum
    /\ Len(subset) = 2
    /\ subset[1].value = Num(65)
    /\ subset[2].value = Num(40)

\* The columns of sf_stats's mean and median entries.
SummarisedBy(kind) ==
    { e[3] : e \in {x \in SummaryKeys : x[2] = kind /\ x[1] \in DOMAIN sf_stats} }

\* The entry of sf_stats of the given kind about column col.
EntryOf(kind, col) ==
    sf_stats[(CHOOSE e \in SummaryKeys : e[2] = kind /\ e[3] = col)[1]]

\* The whole numbers in column col of the rows that have one.
ValuesOf(col) ==
    [k \in NonMissing(df_stats, col) |-> df_stats[k][col][1]]

\* m is the mean of the values v: their sum over their number.
IsMeanOf(m, v) ==
    IF DOMAIN v = {} THEN m = NaNNum
    ELSE m # NaNNum /\ m[1] * Cardinality(DOMAIN v) = m[2] * SumOver(v, DOMAIN v)

\* m is the median of the values v: half the sum of the lower and the
\* upper middle value.
IsMedianOf(m, v) ==
    LET K  == DOMAIN v
        n  == Cardinality(K)
        lo == CHOOSE x \in {v[k] : k \in K} :
                  /\ 2 * Cardinality({k \in K : v[k] < x}) < n
                  /\ 2 * Cardinality({k \in K : v[k] <= x}) >= n
        hi == CHOOSE x \in {v[k] : k \in K} :
                  /\ 2 * Cardinality({k \in K : v[k] > x}) < n
                  /\ 2 * Cardinality({k \in K : v[k] >= x}) >= n
    IN  IF K = {} THEN m = NaNNum
        ELSE m # NaNNum /\ 2 * m[1] = m[2] * (lo + hi)

\* Every column of the five is summarised over its non-missing values.
SkipMissingSummary(cols) ==
    \A col \in cols :
        /\ IsMeanOf(EntryOf("mean", col), ValuesOf(col))
        /\ IsMedianOf(EntryOf("median", col), ValuesOf(col))

\* C20 as stated: summary_fighter_stats returns a mean and a median entry
\* for each of six continuous metrics of the statistics table, each
\* computed over the non-missing values of the metric only.
C20_SixMetricsSummarised ==
    pc = "sf_returned" =>
        LET cols == SummarisedBy("mean") \cap SummarisedBy("median")
        IN  /\ cols \subseteq StatColumns \ {"fighter_name"}
            /\ Cardinality(cols) = 6
            /\ SkipMissingSummary(cols)

\* C20 as amended: summary_fighter_stats returns a mean and a median entry
\* for each of five continuous metrics (Str_Acc_Pct, TD_Acc_Pct, TD_Avg,
\* SLpM, Sub_Avg) and no other entry, each computed over the non-missing
\* values of the metric only, null when the metric has no value.
C20_FiveMetricsSummarised ==
    pc = "sf_returned" =>
        LET cols == SummarisedBy("mean") \cap SummarisedBy("median")
        IN  /\ cols = {"Str_Acc_Pct", "TD_Acc_Pct", "TD_Avg", "SLpM", "Sub_Avg"}
            /\ Cardinality(DOMAIN sf_stats) = 10
            /\ SkipMissingSummary(cols)

\* Strike accuracies 40, missing and 65: mean and median 52.5, the missing
\* one left out; no submission average at all: null.
C20_Witness ==
    /\ pc = "sf_returned"
    /\ Len(df_stats) = 3
    /\ df_stats[1].Str_Acc_Pct = Num(40)
    /\ df_stats[2].Str_Acc_Pct = NaNNum
    /\ df_stats[3].Str_Acc_Pct = Num(65)
    /\ sf_stats["media_precisao_golpes"] = <<105, 2>>
    /\ sf_stats["mediana_precisao_golpes"] = <<105, 2>>
    /\ sf_stats["media_finalizacao_por_luta"] = NaNNum

\* C22 as stated: the two per-fighter win rollups agree on every
\* fight-record set: for every fighter, the wins of the rows of
\* fighter_wins_by_category_and_method under that name sum to the
\* fighter's total_wins in fighter_summary.
C22_WinRollupsAgree ==
    pc = "fw_returned" =>
        \A f \in DOMAIN tallies.total_wins
                  \cup {grouped[k].fighter_name : k \in 1..Len(grouped)} :
            LET rows == SelectSeq(grouped, LAMBDA r : r.fighter_name = f)
            IN  WinsSum(rows, Len(rows)) = Get(tallies.total_wins, f)

\* The sum of the tally d over all its names.
TallySum(d) == SumOver(d, DOMAIN d)

\* C23: after any sequence of fight records every fighter's tallies
\* satisfy 0 <= wins_round1 <= total_wins <= total_fights, every
\* win_percent of the result lies between 0 and 100, the total_wins of all
\* fighters sum to at most the number of records and their total_fights to
\* at most twice that number.
C23_TalliesWithinBounds ==
    LET done == IF pc = "fs_loop" THEN i - 1 ELSE Len(df_wt)
    IN  pc \in {"fs_loop", "fs_returned", "fs_raised"} =>
            /\ \A f \in UNION {DOMAIN tallies[d] : d \in AllCounters} :
                  /\ 0 <= Get(tallies.wins_round1, f)
                  /\ Get(tallies.wins_round1, f) <= Get(tallies.total_wins, f)
                  /\ Get(tallies.total_wins, f) <= Get(tallies.total_fights, f)
            /\ TallySum(tallies.total_wins) <= done
            /\ TallySum(tallies.total_fights) <= 2 * done
            /\ pc = "fs_returned" =>
                  \A r \in DOMAIN merged :
                      /\ 0 <= r.summary.wins_round1
                      /\ r.summary.wins_round1 <= r.summary.total_wins
                      /\ r.summary.total_wins <= r.summary.total_fights
                      /\ 0 <= r.summary.win_percent[1]
                      /\ r.summary.win_percent[1] <= 100 * r.summary.win_percent[2]

\* Two records, both won by the one fighter, the first in round 1: one
\* round-1 win, two wins, two fights, and every record and side is used up.
C23_Witness ==
    /\ pc = "fs_returned"
    /\ Len(df_wt) = 2
    /\ Get(tallies.wins_round1, JohnDoe) = 1
    /\ Get(tallies.total_wins, JohnDoe) = 2
    /\ Get(tallies.total_fights, JohnDoe) = 2
    /\ TallySum(tallies.total_wins) = 2
    /\ TallySum(tallies.total_fights) = 4

\* The rows of the sequence q, as a set.
RowSet(q) == {q[k] : k \in 1..Len(q)}

\* C21: every rollup is pure across any sequence of calls: no step of a
\* rollup changes an input table, and what a call returns is what a first
\* call on the same tables returns, whatever the calls before (on whatever
\* tables) left in the tallies.
C21_CallsArePure ==
    [][ /\ (df_wt' # df_wt \/ df_stats' # df_stats) =>
              pc = "wwm_returned" /\ pc' = "start"
        /\ (pc = "fs_loop" /\ pc' = "fs_returned") =>
              merged' = FighterSummary(df_wt', df_stats')
        /\ (pc = "fs_loop" /\ pc' = "fs_raised") =>
              Fighters(SummaryTallies(df_wt', Len(df_wt')), df_stats') = {}
        /\ (pc = "fw_loop" /\ pc' = "fw_returned") =>
              /\ RowSet(grouped') = FighterWins(df_wt')
              /\ Len(grouped') = Cardinality(FighterWins(df_wt'))
        /\ pc' = "wm_returned" =>
              /\ RowSet(counts') = MethodShares(df_wt')
              /\ Len(counts') = Cardinality(MethodShares(df_wt'))
        /\ pc' = "wwm_returned" =>
              /\ RowSet(by_weight') = WeightMethodShares(df_wt')
              /\ Len(by_weight') = Cardinality(WeightMethodShares(df_wt')) ]_vars

\* A later call of fighter_summary, on a table of one record, has returned
\* one fight for a fighter of that record, while the win list and the method
\* shares of the calls before, on a longer table, are still around.
C21_Witness ==
    /\ pc = "fs_returned"
    /\ Len(df_wt) = 1
    /\ Len(records) = 2
    /\ Len(counts) = 2
    /\ \E r \in RowsOf(AnnLee) : r.summary.total_fights = 1
    /\ tallies.total_fights[AnnLee] = 1

====
